---------------------------- MODULE Spec2Model ----------------------------
(***************************************************************************)
(* Model of src/main.py: a Streamlit script that loads a URL knowledge     *)
(* base into a vector index, lets the user append URLs, and streams an     *)
(* agent's answer into a reasoning pane, an answer pane and a citation     *)
(* list.                                                                   *)
(*                                                                         *)
(* Streamlit executes the whole script once per user interaction.  Every   *)
(* action below is one script run (or, inside the streaming loop, one      *)
(* iteration of the for loop at lines 143-168).  The objects returned by   *)
(* the two st.cache_resource functions (lines 36, 54) outlive the runs;    *)
(* the script's own variables and the rendered page do not.                *)
(* A run is modelled as starting only when no streaming loop is under way. *)
(*                                                                         *)
(* Text that the script concatenates (answer_text, the query) is a         *)
(* sequence of characters; text that it only stores or compares is a       *)
(* string.                                                                 *)
(***************************************************************************)
EXTENDS Naturals, Sequences, FiniteSets

(***************************************************************************)
(* Bounds of the model.                                                    *)
(***************************************************************************)
\* Longest event sequence one agent.run yields.
MaxEvents == 2
\* URLs that may be appended to the default sources.
MaxAdds == 1

(***************************************************************************)
(* Values.                                                                 *)
(***************************************************************************)
\* Python's None, where a field is a string or None.
NONE == "<None>"

\* os.getenv (lines 29-30) returns None, or the variable's value.
KeyVals == {NONE, "", "key"}

\* The urls the knowledge base is constructed with (line 40).
DefaultUrls == <<"bis.gov.in/national-building-code", "trade.gov/india-environmental-technology">>

\* What the user may have typed into the "Add new URL" input (lines 88-92).
UrlInputs == {"", "trade.gov/india-environmental-technology", "example.com/doc"}

\* What the user may have typed into the question text area (lines 113-118);
\* <<"q">> stands for the default "What are Agents?".
QueryInputs == {<< >>, <<" ">>, <<"q">>}

\* RunEvent values (line 2); only the first two are named at line 158.
Phases == {"RunResponse", "RunCompleted", "ToolCallStarted"}

\* chunk.content: None, a str, or some other object (truthy or falsy).
NoContent == [kind |-> "none", text |-> << >>, truthy |-> FALSE]
Str(s) == [kind |-> "str", text |-> s, truthy |-> s # << >>]
Obj(t) == [kind |-> "obj", text |-> << >>, truthy |-> t]

\* One citation: a url and an optional title ("" for None), lines 174-176.
Cite1 == [url |-> "c1", title |-> ""]
Cite2 == [url |-> "c2", title |-> "T2"]

\* chunk.citations: None, or an object holding a urls list.
NoCitations == [present |-> FALSE, urls |-> << >>]
Cits(us) == [present |-> TRUE, urls |-> us]

\* A chunk yielded by agent.run (line 143) that populates nothing.
BlankChunk == [event |-> "ToolCallStarted", reasoning_content |-> NONE, content |-> NoContent, citations |-> NoCitations]

\* The chunks agent.run may yield: each field alone in every shape the loop
\* tests for, and chunks that populate all the fields at once.
ChunkSet ==
    {BlankChunk}
    \cup {[BlankChunk EXCEPT !.reasoning_content = r] : r \in {"", "r1", "r2"}}
    \cup {[BlankChunk EXCEPT !.event = p, !.content = Str(s)] : p \in Phases, s \in {<<"a">>, <<"b">>}}
    \cup {[BlankChunk EXCEPT !.event = "RunResponse", !.content = Str(<< >>)],
          [BlankChunk EXCEPT !.event = "RunResponse", !.content = Obj(TRUE)],
          [BlankChunk EXCEPT !.event = "RunCompleted", !.content = Obj(FALSE)]}
    \cup {[BlankChunk EXCEPT !.citations = Cits(us)] : us \in {<< >>, <<Cite1>>, <<Cite2, Cite1>>}}
    \cup {[event |-> "RunCompleted", reasoning_content |-> "r1", content |-> Str(<<"a">>), citations |-> Cits(<<Cite1>>)],
          [event |-> "RunResponse", reasoning_content |-> "", content |-> Str(<<"b">>), citations |-> Cits(<< >>)]}

(***************************************************************************)
(* State.                                                                  *)
(***************************************************************************)
VARIABLES
    groq_key,         \* line 29
    gemini_key,       \* line 30
    page,             \* what the last script run rendered
    kbCached,         \* load_knowledge's cache_resource entry exists
    agentCached,      \* load_agent's cache_resource entry exists
    urls,             \* knowledge.urls of the cached knowledge base
    index,            \* URLs whose documents the vector table holds
    backendCalls,     \* kinds of backend call made so far
    listedSources,    \* the "Current sources" list as last rendered
    branch,           \* the button branch the last script run took
    uncaught,         \* the exception that ended the last run, if any
    query,            \* the question text area's value
    pc,               \* dispatcher state: IDLE, STREAMING, COMPLETED, FAILED
    events,           \* chunks consumed so far by the current loop
    reasoning_text,   \* line 139
    answer_text,      \* line 138
    citations,        \* line 137
    shownReasoning,   \* content of reasoning_placeholder
    shownAnswer,      \* content of answer_placeholder
    shownCitations    \* the "Sources" list rendered after the loop

vars == <<groq_key, gemini_key, page, kbCached, agentCached, urls, index,
          backendCalls, listedSources, branch, uncaught, query, pc, events,
          reasoning_text, answer_text, citations, shownReasoning, shownAnswer,
          shownCitations>>

keyVars == <<groq_key, gemini_key>>
storeVars == <<kbCached, agentCached, urls, index>>
accVars == <<reasoning_text, answer_text, citations>>
paneVars == <<shownReasoning, shownAnswer, shownCitations>>

(***************************************************************************)
(* Helpers.                                                                *)
(***************************************************************************)
Range(s) == {s[i] : i \in 1..Len(s)}

\* Python truthiness of a string-or-None.
Truthy(s) == s # NONE /\ s # ""

\* Python truthiness of a str held as a character sequence, or of a list.
NonEmpty(s) == s # << >>

\* A variant that tests one key only.
CredsOk_GroqOnly == Truthy(groq_key)

\* The condition of line 33.
CredsOk == Truthy(groq_key) /\ Truthy(gemini_key)

\* The markdown link labels of lines 174-176: title or url.
RECURSIVE Labels(_)
Labels(cs) ==
    IF cs = << >> THEN << >>
    ELSE <<IF Truthy(cs[1].title) THEN cs[1].title ELSE cs[1].url>> \o Labels(Tail(cs))


(***************************************************************************)
(* kb.load (lines 50 and 98-102).  The loader walks the urls in order and  *)
(* writes each one's documents into the vector table; with recreate the    *)
(* table is dropped first, without it nothing is removed.  failAt = 0 is a *)
(* load that returns; failAt = k is a load that raises while working on    *)
(* the k-th url, after the urls before it were written.                    *)
(***************************************************************************)
IndexAfterLoad(idx, us, recreate, failAt) ==
    LET base == IF recreate THEN {} ELSE idx
        done == IF failAt = 0 THEN Range(us) ELSE {us[i] : i \in 1..(failAt - 1)}
    IN  base \cup done

\* A variant that deduplicates: the url is appended only when it is new.
UrlsAfterAdd_Dedup(us, new_url) ==
    IF new_url \in Range(us) THEN us ELSE Append(us, new_url)

\* knowledge.urls.append(new_url), line 97.
UrlsAfterAdd(us, new_url) == Append(us, new_url)

(***************************************************************************)
(* The per-chunk updates of the streaming loop, lines 149-168.             *)
(***************************************************************************)
\* A variant that tests "is not None" instead of truthiness.
ReasoningAfter_IsNotNone(rt, chunk) ==
    IF chunk.reasoning_content # NONE THEN chunk.reasoning_content ELSE rt

\* Lines 150-151.
ReasoningAfter(rt, chunk) ==
    IF Truthy(chunk.reasoning_content) THEN chunk.reasoning_content ELSE rt

\* Lines 150-155: the reasoning pane is rewritten when reasoning_text is.
ShownReasoningAfter(shown, rt, chunk) ==
    IF Truthy(chunk.reasoning_content) THEN ReasoningAfter(rt, chunk) ELSE shown

\* The conditions of lines 158-159.
AnswerAppends(chunk) ==
    /\ chunk.content.truthy
    /\ chunk.event \in {"RunResponse", "RunCompleted"}
    /\ chunk.content.kind = "str"

\* A variant that does not test chunk.event.
AnswerAfter_AnyPhase(at, chunk) ==
    IF chunk.content.truthy /\ chunk.content.kind = "str"
    THEN at \o chunk.content.text ELSE at

\* Lines 158-160.
AnswerAfter(at, chunk) ==
    IF AnswerAppends(chunk) THEN at \o chunk.content.text ELSE at

\* A variant that renders the chunk's own content instead of answer_text.
ShownAnswerAfter_Delta(shown, at, chunk) ==
    IF AnswerAppends(chunk) THEN chunk.content.text ELSE shown

\* Lines 158-164: the answer pane is rewritten when answer_text is.
ShownAnswerAfter(shown, at, chunk) ==
    IF AnswerAppends(chunk) THEN AnswerAfter(at, chunk) ELSE shown

\* A variant that takes every citations object, an empty one included.
CitationsAfter_Overwrite(cs, chunk) ==
    IF chunk.citations.present THEN chunk.citations.urls ELSE cs

\* Lines 167-168.
CitationsAfter(cs, chunk) ==
    IF chunk.citations.present /\ NonEmpty(chunk.citations.urls)
    THEN chunk.citations.urls ELSE cs

(***************************************************************************)
(* Initial state: the process has started, no script run has happened.     *)
(***************************************************************************)
Init ==
    /\ groq_key \in KeyVals
    /\ gemini_key \in KeyVals
    /\ page = "none"
    /\ kbCached = FALSE
    /\ agentCached = FALSE
    /\ urls = << >>
    /\ index = {}
    /\ backendCalls = {}
    /\ listedSources = << >>
    /\ branch = "none"
    /\ uncaught = "none"
    /\ query = <<"q">>
    /\ pc = "IDLE"
    /\ events = << >>
    /\ reasoning_text = ""
    /\ answer_text = << >>
    /\ citations = << >>
    /\ shownReasoning = ""
    /\ shownAnswer = << >>
    /\ shownCitations = << >>

(***************************************************************************)
(* What every script run starts from: the previous run's variables are     *)
(* gone and the page is drawn anew.                                        *)
(***************************************************************************)
FreshNamespace ==
    /\ events' = << >>
    /\ reasoning_text' = ""
    /\ answer_text' = << >>
    /\ citations' = << >>

FreshPanes ==
    /\ shownReasoning' = ""
    /\ shownAnswer' = << >>
    /\ shownCitations' = << >>

(***************************************************************************)
(* Script runs.                                                            *)
(***************************************************************************)
\* Lines 33, 180-190: a run without both keys renders the instructions.
ShowSetup ==
    /\ ~CredsOk
    /\ page' = "setup"
    /\ branch' = "none"
    /\ uncaught' = "none"
    /\ pc' = "IDLE"
    /\ FreshNamespace
    /\ FreshPanes
    /\ UNCHANGED <<keyVars, storeVars, backendCalls, listedSources, query>>

\* Lines 73-74 with empty caches, load returning: the knowledge base is
\* built and indexed, the agent is created, the page is rendered.
FirstRunOk ==
    /\ CredsOk
    /\ ~kbCached
    /\ urls' = DefaultUrls
    /\ index' = IndexAfterLoad(index, DefaultUrls, TRUE, 0)
    /\ kbCached' = TRUE
    /\ agentCached' = TRUE
    /\ backendCalls' = backendCalls \cup {"kb_load"}
    /\ page' = "app"
    /\ listedSources' = urls'
    /\ branch' = "none"
    /\ uncaught' = "none"
    /\ pc' = "IDLE"
    /\ FreshNamespace
    /\ FreshPanes
    /\ UNCHANGED <<keyVars, query>>

\* Line 73 with an empty cache, load raising at the k-th url: nothing is
\* cached, the exception ends the run before any widget is rendered.
FirstRunFail(k) ==
    /\ CredsOk
    /\ ~kbCached
    /\ k \in 1..Len(DefaultUrls)
    /\ index' = IndexAfterLoad(index, DefaultUrls, TRUE, k)
    /\ backendCalls' = backendCalls \cup {"kb_load"}
    /\ page' = "crashed"
    /\ branch' = "none"
    /\ uncaught' = "load_knowledge"
    /\ pc' = "IDLE"
    /\ FreshNamespace
    /\ FreshPanes
    /\ UNCHANGED <<keyVars, kbCached, agentCached, urls, listedSources, query>>

\* A run with both caches filled and no button pressed.
Rerun ==
    /\ CredsOk
    /\ kbCached
    /\ pc # "STREAMING"
    /\ page' = "app"
    /\ listedSources' = urls
    /\ branch' = "none"
    /\ uncaught' = "none"
    /\ pc' = "IDLE"
    /\ FreshNamespace
    /\ FreshPanes
    /\ UNCHANGED <<keyVars, storeVars, backendCalls, query>>

\* Lines 94-95, 105-106: "Add URL" pressed with an empty input.
AddUrlEmpty(new_url) ==
    /\ page \in {"sidebar", "app"}
    /\ pc # "STREAMING"
    /\ ~Truthy(new_url)
    /\ page' = "app"
    /\ listedSources' = urls
    /\ branch' = "add_empty"
    /\ uncaught' = "none"
    /\ pc' = "IDLE"
    /\ FreshNamespace
    /\ FreshPanes
    /\ UNCHANGED <<keyVars, storeVars, backendCalls, query>>

\* Lines 94-104, load returning: append, reindex, st.success, and the run
\* that st.rerun starts, which lists the new url.
AddUrlOk(new_url) ==
    /\ page \in {"sidebar", "app"}
    /\ pc # "STREAMING"
    /\ Truthy(new_url)
    /\ Len(urls) < Len(DefaultUrls) + MaxAdds
    /\ urls' = UrlsAfterAdd(urls, new_url)
    /\ index' = IndexAfterLoad(index, urls', FALSE, 0)
    /\ backendCalls' = backendCalls \cup {"reindex"}
    /\ page' = "app"
    /\ listedSources' = urls'
    /\ branch' = "add"
    /\ uncaught' = "none"
    /\ pc' = "IDLE"
    /\ FreshNamespace
    /\ FreshPanes
    /\ UNCHANGED <<keyVars, kbCached, agentCached, query>>

\* A variant that takes the url back out when the load raises.
AddUrlFail_Rollback(new_url, k) ==
    /\ page \in {"sidebar", "app"}
    /\ pc # "STREAMING"
    /\ Truthy(new_url)
    /\ Len(urls) < Len(DefaultUrls) + MaxAdds
    /\ k \in 1..(Len(urls) + 1)
    /\ urls' = urls
    /\ index' = IndexAfterLoad(index, UrlsAfterAdd(urls, new_url), FALSE, k)
    /\ backendCalls' = backendCalls \cup {"reindex"}
    /\ page' = "sidebar"
    /\ listedSources' = urls
    /\ branch' = "add"
    /\ uncaught' = "reindex"
    /\ pc' = "IDLE"
    /\ FreshNamespace
    /\ FreshPanes
    /\ UNCHANGED <<keyVars, kbCached, agentCached, query>>

\* Lines 94-102, load raising at the k-th url: the append of line 97 has
\* happened, nothing catches the exception, the run ends inside the
\* sidebar (the sources were listed at lines 83-84, before the append).
AddUrlFail(new_url, k) ==
    /\ page \in {"sidebar", "app"}
    /\ pc # "STREAMING"
    /\ Truthy(new_url)
    /\ Len(urls) < Len(DefaultUrls) + MaxAdds
    /\ urls' = UrlsAfterAdd(urls, new_url)
    /\ k \in 1..Len(urls')
    /\ index' = IndexAfterLoad(index, urls', FALSE, k)
    /\ backendCalls' = backendCalls \cup {"reindex"}
    /\ page' = "sidebar"
    /\ listedSources' = urls
    /\ branch' = "add"
    /\ uncaught' = "reindex"
    /\ pc' = "IDLE"
    /\ FreshNamespace
    /\ FreshPanes
    /\ UNCHANGED <<keyVars, kbCached, agentCached, query>>

\* Lines 121-122, 177-178: "Get Answer" pressed with an empty question.
SubmitEmpty(q) ==
    /\ page = "app"
    /\ pc # "STREAMING"
    /\ ~NonEmpty(q)
    /\ query' = q
    /\ page' = "app"
    /\ listedSources' = urls
    /\ branch' = "ask_empty"
    /\ uncaught' = "none"
    /\ pc' = "IDLE"
    /\ FreshNamespace
    /\ FreshPanes
    /\ UNCHANGED <<keyVars, storeVars, backendCalls>>

\* A variant that keeps the accumulators of the previous question.
SubmitQuery_NoReset(q) ==
    /\ page = "app"
    /\ pc # "STREAMING"
    /\ NonEmpty(q)
    /\ query' = q
    /\ page' = "app"
    /\ listedSources' = urls
    /\ branch' = "ask"
    /\ uncaught' = "none"
    /\ pc' = "STREAMING"
    /\ events' = << >>
    /\ shownCitations' = << >>
    /\ shownReasoning' = reasoning_text
    /\ shownAnswer' = answer_text
    /\ backendCalls' = backendCalls \cup {"agent_run"}
    /\ UNCHANGED <<keyVars, storeVars, accVars>>

\* Lines 121-148: "Get Answer" pressed with a question: the panes are
\* created empty, the accumulators are initialised, agent.run is started.
SubmitQuery(q) ==
    /\ page = "app"
    /\ pc # "STREAMING"
    /\ NonEmpty(q)
    /\ query' = q
    /\ page' = "app"
    /\ listedSources' = urls
    /\ branch' = "ask"
    /\ uncaught' = "none"
    /\ pc' = "STREAMING"
    /\ events' = << >>
    /\ citations' = << >>
    /\ answer_text' = << >>
    /\ reasoning_text' = ""
    /\ FreshPanes
    /\ backendCalls' = backendCalls \cup {"agent_run"}
    /\ UNCHANGED <<keyVars, storeVars>>

\* Lines 143-168: one iteration of the loop, on the chunk agent.run yields.
Consume(chunk) ==
    /\ pc = "STREAMING"
    /\ Len(events) < MaxEvents
    /\ events' = Append(events, chunk)
    /\ reasoning_text' = ReasoningAfter(reasoning_text, chunk)
    /\ shownReasoning' = ShownReasoningAfter(shownReasoning, reasoning_text, chunk)
    /\ answer_text' = AnswerAfter(answer_text, chunk)
    /\ shownAnswer' = ShownAnswerAfter(shownAnswer, answer_text, chunk)
    /\ citations' = CitationsAfter(citations, chunk)
    /\ UNCHANGED <<keyVars, storeVars, backendCalls, page, listedSources, branch,
                   uncaught, query, pc, shownCitations>>

\* Lines 170-176: agent.run is exhausted; the citations are rendered.
Exhausted ==
    /\ pc = "STREAMING"
    /\ pc' = "COMPLETED"
    /\ shownCitations' = IF NonEmpty(citations) THEN Labels(citations) ELSE << >>
    /\ UNCHANGED <<keyVars, storeVars, backendCalls, page, listedSources, branch,
                   uncaught, query, events, accVars, shownReasoning, shownAnswer>>

\* A variant whose error path empties the panes and the accumulators.
StreamError_Discard ==
    /\ pc = "STREAMING"
    /\ pc' = "FAILED"
    /\ uncaught' = "agent_run"
    /\ reasoning_text' = ""
    /\ answer_text' = << >>
    /\ shownReasoning' = ""
    /\ shownAnswer' = << >>
    /\ UNCHANGED <<keyVars, storeVars, backendCalls, page, listedSources, branch,
                   query, events, citations, shownCitations>>

\* Lines 143-148: agent.run raises instead of yielding.  Nothing in the
\* script catches it: the run ends there, the exception reaches the
\* runtime, and what the placeholders hold stays on the page.
StreamError ==
    /\ pc = "STREAMING"
    /\ pc' = "FAILED"
    /\ uncaught' = "agent_run"
    /\ UNCHANGED <<keyVars, storeVars, backendCalls, page, listedSources, branch,
                   query, events, accVars, paneVars>>

Next ==
    \/ ShowSetup
    \/ FirstRunOk
    \/ \E k \in 1..Len(DefaultUrls) : FirstRunFail(k)
    \/ Rerun
    \/ \E new_url \in UrlInputs : AddUrlEmpty(new_url)
    \/ \E new_url \in UrlInputs : AddUrlOk(new_url)
    \/ \E new_url \in UrlInputs : \E k \in 1..(Len(DefaultUrls) + MaxAdds) : AddUrlFail(new_url, k)
    \/ \E q \in QueryInputs : SubmitEmpty(q)
    \/ \E q \in QueryInputs : SubmitQuery(q)
    \/ \E chunk \in ChunkSet : Consume(chunk)
    \/ Exhausted
    \/ StreamError

Spec == Init /\ [][Next]_vars

(***************************************************************************)
(* What the claims speak of, computed from the history of consumed chunks  *)
(* rather than by the loop.                                                *)
(***************************************************************************)
IsPrefix(s, t) == Len(s) <= Len(t) /\ SubSeq(t, 1, Len(s)) = s

Last(s) == s[Len(s)]

Count(us, u) == Cardinality({i \in 1..Len(us) : us[i] = u})

\* Empty, or nothing but blanks.
IsBlank(q) == \A i \in 1..Len(q) : q[i] = " "

\* Either backend credential is missing or empty.
CredentialMissing == groq_key \in {NONE, ""} \/ gemini_key \in {NONE, ""}

\* A question has been submitted to the agent in the current script run.
InQuery == pc \in {"STREAMING", "COMPLETED", "FAILED"}

\* The textual payloads of the RESPONSE and COMPLETED chunks, in order.
RECURSIVE ConcatAnswerPayloads(_)
ConcatAnswerPayloads(es) ==
    IF es = << >> THEN << >>
    ELSE (IF es[1].event \in {"RunResponse", "RunCompleted"} /\ es[1].content.kind = "str"
          THEN es[1].content.text ELSE << >>) \o ConcatAnswerPayloads(Tail(es))

\* The urls of the last chunk whose citation list is non-empty.
RECURSIVE LastNonEmptyCitations(_)
LastNonEmptyCitations(es) ==
    IF es = << >> THEN << >>
    ELSE LET c == es[Len(es)].citations
         IN  IF c.present /\ c.urls # << >> THEN c.urls
             ELSE LastNonEmptyCitations(SubSeq(es, 1, Len(es) - 1))

\* The reasoning value of the last chunk that carries one, whatever it is.
RECURSIVE LastCarriedReasoning(_)
LastCarriedReasoning(es) ==
    IF es = << >> THEN ""
    ELSE LET r == es[Len(es)].reasoning_content
         IN  IF r # NONE THEN r ELSE LastCarriedReasoning(SubSeq(es, 1, Len(es) - 1))

\* The reasoning value of the last chunk that carries a non-empty one.
RECURSIVE LastNonEmptyReasoning(_)
LastNonEmptyReasoning(es) ==
    IF es = << >> THEN ""
    ELSE LET r == es[Len(es)].reasoning_content
         IN  IF r # NONE /\ r # "" THEN r
             ELSE LastNonEmptyReasoning(SubSeq(es, 1, Len(es) - 1))

(***************************************************************************)
(* Claims.                                                                 *)
(***************************************************************************)

\* C1: after any chunk sequence, answer_text is the concatenation, in
\* arrival order, of the string content of the chunks whose event is
\* run_response or run_completed; other chunks contribute nothing.
C1_AnswerIsConcatenation ==
    InQuery => answer_text = ConcatAnswerPayloads(events)

\* Two different payloads were appended in order and the loop has ended.
C1_Witness ==
    /\ pc = "COMPLETED"
    /\ Len(events) = 2
    /\ Len(answer_text) = 2
    /\ answer_text[1] # answer_text[2]

\* C2: after any chunk sequence, citations is the url list of the last
\* chunk whose list was non-empty; absent or empty lists change nothing;
\* with no non-empty list it stays empty.
C2_CitationsLastNonEmpty ==
    InQuery => citations = LastNonEmptyCitations(events)

\* A non-empty list was followed by an empty one and was kept.
C2_Witness ==
    /\ pc = "COMPLETED"
    /\ Len(events) = 2
    /\ events[1].citations.urls # << >>
    /\ events[2].citations.present
    /\ events[2].citations.urls = << >>
    /\ citations = events[1].citations.urls

\* C3 as stated: reasoning_text is the value of the most recent chunk
\* that carried a reasoning value, whatever that value is.
C3_ReasoningLastCarried ==
    InQuery => reasoning_text = LastCarriedReasoning(events)

\* C3 as amended: reasoning_text is the value of the most recent chunk
\* that carried a non-empty reasoning value (overwritten, not appended);
\* it is empty only if no chunk so far carried a non-empty one.
C3_ReasoningLastNonEmpty ==
    InQuery => reasoning_text = LastNonEmptyReasoning(events)

\* One snapshot was overwritten by a later, different one.
C3_Witness ==
    /\ InQuery
    /\ Len(events) = 2
    /\ events[1].reasoning_content = "r1"
    /\ events[2].reasoning_content = "r2"
    /\ reasoning_text = "r2"

\* C4: a question that is empty or only whitespace never reaches
\* STREAMING: while such a question is the submitted one, no agent run
\* was started for it.
C4_BlankQueryRejected ==
    IsBlank(query) => (pc = "IDLE" /\ branch # "ask")

\* C5: when agent.run raises after k chunks, the dispatcher is FAILED, the
\* exception is surfaced, and the answer and reasoning accumulated from
\* those k chunks are kept and still displayed.
C5_PartialStatePreserved ==
    pc = "FAILED" =>
        /\ uncaught = "agent_run"
        /\ answer_text = ConcatAnswerPayloads(events)
        /\ reasoning_text = LastNonEmptyReasoning(events)
        /\ shownAnswer = answer_text
        /\ shownReasoning = reasoning_text

\* The run failed after chunks that had filled both panes.
C5_Witness ==
    /\ pc = "FAILED"
    /\ Len(events) >= 1
    /\ answer_text # << >>
    /\ reasoning_text # ""
    /\ shownAnswer = answer_text

C7_NoBackendWithoutCreds ==
    CredentialMissing =>
        /\ page \in {"none", "setup"}
        /\ ~kbCached
        /\ ~agentCached
        /\ urls = << >>
        /\ index = {}
        /\ backendCalls = {}
        /\ branch = "none"
        /\ pc = "IDLE"

\* One key is set, the other is empty, and the instructions are shown.
C7_Witness ==
    /\ groq_key = "key"
    /\ gemini_key = ""
    /\ page = "setup"

\* C8 as stated: while STREAMING, after each chunk the whole accumulated
\* triple has been published, citations included.
C8_TriplePublished ==
    pc = "STREAMING" =>
        /\ shownReasoning = reasoning_text
        /\ shownAnswer = answer_text
        /\ shownCitations = Labels(citations)

\* C8 as amended: while STREAMING, after each chunk the reasoning and the
\* answer panes show the accumulated texts and no citation is shown; the
\* citations are published once, when the sequence is exhausted.
C8_TextsPublishedCitationsAtEnd ==
    /\ pc = "STREAMING" =>
          /\ shownReasoning = reasoning_text
          /\ shownAnswer = answer_text
          /\ shownCitations = << >>
    /\ pc = "COMPLETED" =>
          /\ shownReasoning = reasoning_text
          /\ shownAnswer = answer_text
          /\ shownCitations = Labels(citations)

\* Mid-stream, two chunks changed the answer and citations are pending.
C8_Witness ==
    /\ pc = "STREAMING"
    /\ Len(answer_text) = 2
    /\ shownAnswer = answer_text
    /\ citations # << >>
    /\ shownCitations = << >>

\* C9: during a query answer_text only gets longer, each value a prefix
\* of the next; a new query starts with all three accumulators empty.
C9_AnswerOnlyGrows ==
    [][/\ pc = "STREAMING" => IsPrefix(answer_text, answer_text')
       /\ (pc # "STREAMING" /\ pc' = "STREAMING") =>
              /\ answer_text' = << >>
              /\ reasoning_text' = ""
              /\ citations' = << >>]_vars

\* After a url was added, a query is under way and its answer has grown
\* twice.
C9_Witness ==
    /\ pc = "STREAMING"
    /\ Len(events) = 2
    /\ Len(answer_text) = 2
    /\ "reindex" \in backendCalls

=============================================================================
